---------------------------- MODULE Spec2Model ----------------------------
(***************************************************************************)
(* ml/predict.py: a command-line inference wrapper.  One invocation is a   *)
(* straight line of steps (main, lines 21-43); every step either completes *)
(* or raises, and nothing is caught.  The file system, the image decoder   *)
(* (PIL) and the classifier (Keras) are the environment: each is a         *)
(* function that is fixed for a whole behaviour and discovered on first    *)
(* use.                                                                    *)
(*                                                                         *)
(* Text is a sequence of one-character strings.  A float is the numerator  *)
(* of a dyadic fraction over FloatScale, which is what a binary float is,  *)
(* at reduced precision.  Pixel data is kept as the interval [lo, hi] its  *)
(* samples lie in.  A Python local that is not bound yet is <<>>, a bound  *)
(* one is <<value>>.                                                       *)
(***************************************************************************)
EXTENDS Integers, Sequences, FiniteSets, TLC

\* ------------------------------------------------------------------ bounds
MaxLen == 5        \* longest input file content, in characters
MaxArgs == 2       \* most command-line arguments after the program name

\* --------------------------------------------------------------- constants
model_path == <<"m","l","/","f","l","o","w","e","r","3",".","k","e","r","a","s">>
class_names == << <<"M","a","r","i","g","o","l","d">>,
                  <<"S","c","a","r","l","e","t"," ","S","a","g","e">> >>
target_size == <<150, 150>>
PixelDivisor == 255
ErrorLine == <<"E","r","r","o","r","|","0",".","0">>

Unset == <<>>
Some(v) == <<v>>

\* ------------------------------------------------------------ text helpers
Whitespace == {" "}

RECURSIVE LStrip(_)
LStrip(s) ==
    IF s # <<>> /\ Head(s) \in Whitespace THEN LStrip(Tail(s)) ELSE s

RECURSIVE RStrip(_)
RStrip(s) ==
    IF s # <<>> /\ s[Len(s)] \in Whitespace
    THEN RStrip(SubSeq(s, 1, Len(s) - 1))
    ELSE s

\* str.strip(): leading and trailing whitespace removed, interior kept
Strip(s) == RStrip(LStrip(s))

\* ------------------------------------------------------------------ base64
\* binascii's decode table: the 6-bit value of an alphabet character, 64 for
\* every character outside the alphabet
B64Index(c) == IF c = "Q" THEN 16 ELSE 64

\* binascii.a2b_base64 in its default (non-strict) mode, the loop
\* base64.b64decode runs: characters outside the alphabet are skipped, a pad
\* that completes a quad ends the decode (what follows is ignored), and only a
\* quad left open at the end of the input is an error.
RECURSIVE A2bBase64(_, _, _, _, _, _)
A2bBase64(s, i, quad_pos, leftchar, pads, out) ==
    IF i > Len(s)
    THEN IF quad_pos # 0
         THEN [ok |-> FALSE, bytes |-> <<>>]
         ELSE [ok |-> TRUE, bytes |-> out]
    ELSE LET c == s[i]
             v == B64Index(c)
         IN  IF c = "="
             THEN IF quad_pos >= 2 /\ quad_pos + pads + 1 >= 4
                  THEN [ok |-> TRUE, bytes |-> out]
                  ELSE A2bBase64(s, i + 1, quad_pos, leftchar,
                                 IF quad_pos >= 2 THEN pads + 1 ELSE pads, out)
             ELSE IF v >= 64
             THEN A2bBase64(s, i + 1, quad_pos, leftchar, pads, out)
             ELSE CASE quad_pos = 0 ->
                         A2bBase64(s, i + 1, 1, v, 0, out)
                    [] quad_pos = 1 ->
                         A2bBase64(s, i + 1, 2, v % 16, 0,
                                   Append(out, leftchar * 4 + v \div 16))
                    [] quad_pos = 2 ->
                         A2bBase64(s, i + 1, 3, v % 4, 0,
                                   Append(out, leftchar * 16 + v \div 4))
                    [] OTHER ->
                         A2bBase64(s, i + 1, 0, 0, 0,
                                   Append(out, leftchar * 64 + v))

\* a decode that never reports an open quad: what was decoded so far is returned
b64decodeUnchecked(s) ==
    [ok |-> TRUE, bytes |-> A2bBase64(s, 1, 0, 0, 0, <<>>).bytes]

\* base64.b64decode(s), validate=False
b64decode(s) == A2bBase64(s, 1, 0, 0, 0, <<>>)

\* ------------------------------------------------------------------ floats
\* A float x is the integer x * FloatScale.
FloatScale == 2 ^ 16

\* the float nearest to the decimal num/den
Nearest(num, den) == (2 * num * FloatScale + den) \div (2 * den)

DigitChar(d) == <<"0","1","2","3","4","5","6","7","8","9">>[d + 1]

RECURSIVE NatText(_)
NatText(n) ==
    IF n < 10 THEN <<DigitChar(n)>>
    ELSE Append(NatText(n \div 10), DigitChar(n % 10))

\* the last `places` decimal digits of n, zero-padded
RECURSIVE FractionText(_, _)
FractionText(n, places) ==
    IF places = 0 THEN <<>>
    ELSE Append(FractionText(n \div 10, places - 1), DigitChar(n % 10))

\* x scaled by 10^places and rounded to an integer the way float formatting
\* rounds: to nearest on the exact binary value, an exact half to even
RoundScaled(x, places) ==
    LET n == x * 10 ^ places
        q == n \div FloatScale
        r == n % FloatScale
    IN  IF 2 * r > FloatScale \/ (2 * r = FloatScale /\ q % 2 = 1)
        THEN q + 1
        ELSE q

\* format(x, ".4f") for x >= 0
FormatFixed(x, places) ==
    LET q == RoundScaled(x, places)
    IN  NatText(q \div 10 ^ places) \o <<".">>
            \o FractionText(q % 10 ^ places, places)

\* the line with a format of 3 places
ResultLineShort(label, confidence) ==
    label \o <<"|">> \o FormatFixed(confidence, 3)

\* f"{predicted_label}|{confidence:.4f}"
ResultLine(label, confidence) == label \o <<"|">> \o FormatFixed(confidence, 4)

\* ------------------------------------------------------------------- numpy
\* np.argmax over one row: the scan keeps the first maximum it meets.
\* Indices are 0-based, as in the source.
RECURSIVE ArgMaxScan(_, _, _)
ArgMaxScan(row, i, best) ==
    IF i > Len(row) THEN best - 1
    ELSE ArgMaxScan(row, i + 1, IF row[i] > row[best] THEN i ELSE best)

\* a scan that keeps the last maximum instead of the first
RECURSIVE ArgMaxLastScan(_, _, _)
ArgMaxLastScan(row, i, best) ==
    IF i > Len(row) THEN best - 1
    ELSE ArgMaxLastScan(row, i + 1, IF row[i] >= row[best] THEN i ELSE best)

ArgMaxLast(preds) == ArgMaxLastScan(preds[1], 2, 1)

\* np.argmax(preds, axis=1)[0]
ArgMax(preds) == ArgMaxScan(preds[1], 2, 1)

RECURSIVE MaxScan(_, _, _)
MaxScan(row, i, best) ==
    IF i > Len(row) THEN best
    ELSE MaxScan(row, i + 1, IF row[i] > best THEN row[i] ELSE best)

\* the first entry taken for the largest
NpFirst(preds) == preds[1][1]

\* float(np.max(preds)): the largest entry of the whole array
NpMax(preds) == MaxScan(preds[1], 2, preds[1][1])

\* --------------------------------------------------------------------- PIL
\* An opened image: its mode, its size (width, height) and the interval its
\* samples lie in.
Bands(mode) ==
    CASE mode = "L" -> 1
      [] mode = "RGB" -> 3
      [] mode = "RGBA" -> 4
      [] OTHER -> 1          \* "I": one band of 32-bit integers

EightBit == {"L", "RGB", "RGBA"}

Clip8(v) == IF v < 0 THEN 0 ELSE IF v > 2 ^ 8 - 1 THEN 2 ^ 8 - 1 ELSE v

\* a conversion that is skipped: the image keeps its mode and its samples
ConvertSkipped(img, mode) == img

\* Image.convert(mode): the result has the bands of the new mode; going to an
\* 8-bit mode clips every sample to 0..255
Convert(img, mode) ==
    [mode |-> mode, size |-> img.size, lo |-> Clip8(img.lo), hi |-> Clip8(img.hi)]

\* Image.resize(size): the result has exactly that size; the mode is kept.
\* Interpolating between unequal samples can give any value the mode can
\* hold between them or (for a filter with overshoot) beyond them, saturated
\* for an 8-bit mode.
Resize(img, size) ==
    LET flat == img.lo = img.hi \/ img.mode \notin EightBit
    IN  [mode |-> img.mode, size |-> size,
         lo |-> IF flat THEN img.lo ELSE 0,
         hi |-> IF flat THEN img.hi ELSE 2 ^ 8 - 1]

\* np.array(img): rows are the height, columns the width, and a multi-band
\* image has a trailing axis for the bands
NpArray(img) ==
    [shape |-> <<img.size[2], img.size[1]>>
                 \o (IF Bands(img.mode) > 1 THEN <<Bands(img.mode)>> ELSE <<>>),
     lo |-> img.lo, hi |-> img.hi, den |-> 1]

\* array / d: an element k/den becomes k/(den*d)
Divide(arr, d) == [arr EXCEPT !.den = arr.den * d]

\* np.expand_dims(arr, axis=0)
ExpandDims(arr) == [arr EXCEPT !.shape = <<1>> \o arr.shape]

\* lines 16-19 on an image that Image.open could read
load_and_preprocess_image(img) ==
    ExpandDims(Divide(NpArray(Resize(Convert(img, "RGB"), target_size)),
                      PixelDivisor))

\* ------------------------------------------------------------- environment
\* the characters of an input file: an alphabet character, the pad, whitespace,
\* and a character that is neither
Chars == {"Q", "=", " ", "!"}
Paths == {"a", "b"}

\* the contents a text file can have
Contents == UNION {[1..n -> Chars] : n \in 0..MaxLen}

\* what is at a path: nothing, a file that is not text, or a text file
FileStates ==
    {[kind |-> "missing", content |-> <<>>], [kind |-> "binary", content |-> <<>>]}
        \cup {[kind |-> "text", content |-> c] : c \in Contents}

\* the argument lists of an invocation, after the program name
ArgLists == UNION {[1..n -> Paths] : n \in 0..MaxArgs}

\* every image Image.open can return
Images ==
    {[mode |-> m, size |-> <<w, h>>, lo |-> r[1], hi |-> r[2]] :
        m \in EightBit, w \in {1, 150, 200}, h \in {1, 150, 200},
        r \in {<<0, 0>>, <<0, 255>>, <<17, 200>>, <<255, 255>>}}
    \cup
    {[mode |-> "I", size |-> <<w, h>>, lo |-> r[1], hi |-> r[2]] :
        w \in {1, 150, 200}, h \in {1, 150, 200},
        r \in {<<0, 255>>, <<0, 65535>>, <<0 - 5, 300>>}}

\* the images the input files of a whole run decode to
DecodableImages ==
    {[mode |-> "RGB", size |-> <<150, 150>>, lo |-> 0, hi |-> 255],
     [mode |-> "I", size |-> <<200, 1>>, lo |-> 0, hi |-> 65535]}

\* what Image.open can do with a byte string: raise, or return an image;
\* nothing can be read from no bytes at all
OpenResults(bytes) ==
    {[ok |-> FALSE, img |-> <<>>]}
        \cup (IF bytes = <<>> THEN {}
              ELSE {[ok |-> TRUE, img |-> <<i>>] : i \in DecodableImages})

\* the batches model.predict can return for one image: shape (1, 2), a score in
\* [0, 1] for each of the 2 classes
ModelOutputs ==
    {<< <<Nearest(9, 10), Nearest(1, 10)>> >>,
     << <<Nearest(2, 10), Nearest(8, 10)>> >>,
     << <<Nearest(1, 2), Nearest(1, 2)>> >>,
     << <<Nearest(2, 10), Nearest(2, 10)>> >>,
     << <<FloatScale, 0>> >>,
     << <<Nearest(1, 32), Nearest(31, 32)>> >>}

PredictResults ==
    {[ok |-> FALSE, preds |-> <<>>]}
        \cup {[ok |-> TRUE, preds |-> <<o>>] : o \in ModelOutputs}

EmptyMemo == [k \in {} |-> k]
MemoSet(memo, key, val) ==
    [k \in DOMAIN memo \cup {key} |-> IF k = key THEN val ELSE memo[k]]
\* the answers the environment can give for key: the one it gave before, or
\* any of `fresh` when it is asked for the first time
Answers(memo, key, fresh) ==
    IF key \in DOMAIN memo THEN {memo[key]} ELSE fresh

\* ------------------------------------------------------------------- state
VARIABLES
    sys_argv,         \* the program name followed by the arguments
    pc,               \* the step main() is about to run, or "exited"
    b64_file_path,    \* main's locals, each <<>> until it is bound
    f_open,           \* TRUE while the handle f of line 28 is open
    opened,           \* the paths open() was called on and returned a handle
    b64_string,
    img_bytes,
    model,
    img_array,
    preds,
    predicted_index,
    predicted_label,
    confidence,
    stdout,           \* the lines printed so far
    exit_code,        \* <<>> while running, then <<status>>
    raised,           \* <<>>, or <<the exception nothing caught>>
    steps,            \* the steps entered so far, in order
    fs,               \* environment: path -> what is there
    model_file,       \* environment: whether ml/flower3.keras can be loaded
    pil,              \* environment: bytes -> what Image.open does with them
    net,              \* environment: tensor -> what model.predict does with it
    earlier,          \* <<>>, or <<the outcome of the invocation before>>
    pre               \* the preprocessing pipeline run on its own

locals == <<b64_file_path, f_open, opened, b64_string, img_bytes, model,
            img_array, preds, predicted_index, predicted_label, confidence>>
process == <<sys_argv, pc, stdout, exit_code, raised, steps>>
env == <<fs, model_file, pil, net>>
vars == <<locals, process, env, earlier, pre>>

\* a fresh process started with the argument list args
Start(args) ==
    /\ sys_argv = <<"predict.py">> \o args
    /\ pc = "argcheck"
    /\ b64_file_path = Unset
    /\ f_open = FALSE
    /\ opened = <<>>
    /\ b64_string = Unset
    /\ img_bytes = Unset
    /\ model = Unset
    /\ img_array = Unset
    /\ preds = Unset
    /\ predicted_index = Unset
    /\ predicted_label = Unset
    /\ confidence = Unset
    /\ stdout = <<>>
    /\ exit_code = Unset
    /\ raised = Unset
    /\ steps = <<>>

PreIdle == [stage |-> "idle", src |-> <<>>, img |-> <<>>, arr |-> <<>>]

Init ==
    /\ \E args \in ArgLists : Start(args)
    /\ fs = EmptyMemo
    /\ model_file \in {"ok", "unloadable"}
    /\ pil = EmptyMemo
    /\ net = EmptyMemo
    /\ earlier = Unset
    /\ pre = PreIdle

\* ---------------------------------------------------------------- the steps
\* the statements of main() with the image preprocessed before the model is
\* loaded
NextStepImageFirst(here) ==
    CASE here = "argcheck" -> "open"
      [] here = "open" -> "read"
      [] here = "read" -> "b64decode"
      [] here = "b64decode" -> "preprocess"
      [] here = "preprocess" -> "load_model"
      [] here = "load_model" -> "predict"
      [] here = "predict" -> "argmax"
      [] here = "argmax" -> "print"
      [] OTHER -> "exited"

\* main() is straight-line code: the statement that follows each step when
\* the step completes
NextStep(here) ==
    CASE here = "argcheck" -> "open"
      [] here = "open" -> "read"
      [] here = "read" -> "b64decode"
      [] here = "b64decode" -> "load_model"
      [] here = "load_model" -> "preprocess"
      [] here = "preprocess" -> "predict"
      [] here = "predict" -> "argmax"
      [] here = "argmax" -> "print"
      [] OTHER -> "exited"

\* the step `here` is entered and control goes on to `next`
Goto(here, next) ==
    /\ pc = here
    /\ pc' = next
    /\ steps' = Append(steps, here)

\* an exception caught by a handler that reports it with the sentinel line
RaiseReported(exc) ==
    /\ raised' = raised
    /\ exit_code' = Some(1)
    /\ f_open' = FALSE
    /\ stdout' = Append(stdout, ErrorLine)

\* an exception leaves main uncaught: traceback on stderr, status 1.  The
\* with block of line 28, if it is active, closes f on the way out.
Raise(exc) ==
    /\ raised' = Some(exc)
    /\ exit_code' = Some(1)
    /\ f_open' = FALSE
    /\ UNCHANGED stdout

\* the check off by one: the program name alone counts as an argument
MissingArgumentOffByOne(argv) == Len(argv) < 1

\* the check as "exactly one argument": further arguments are rejected too
MissingArgumentStrict(argv) == Len(argv) # 2

\* len(sys.argv) < 2
MissingArgument(argv) == Len(argv) < 2

\* lines 22-26
CheckArgs ==
    IF MissingArgument(sys_argv)
    THEN /\ Goto("argcheck", "exited")
         /\ stdout' = Append(stdout, ErrorLine)
         /\ exit_code' = Some(1)
         /\ UNCHANGED <<locals, sys_argv, raised, env, earlier, pre>>
    ELSE IF Len(sys_argv) < 2
    THEN /\ Goto("argcheck", "exited")
         /\ Raise("IndexError")
         /\ UNCHANGED <<b64_file_path, opened, b64_string, img_bytes, model,
                        img_array, preds, predicted_index, predicted_label,
                        confidence, sys_argv, env, earlier, pre>>
    ELSE /\ Goto("argcheck", NextStep("argcheck"))
         /\ b64_file_path' = Some(sys_argv[2])
         /\ UNCHANGED <<f_open, opened, b64_string, img_bytes, model,
                        img_array, preds, predicted_index, predicted_label,
                        confidence, sys_argv, stdout, exit_code, raised, env,
                        earlier, pre>>

\* line 28: open(b64_file_path, "r")
OpenFile ==
    /\ pc = "open"
    /\ \E file \in Answers(fs, b64_file_path[1], FileStates) :
        /\ fs' = MemoSet(fs, b64_file_path[1], file)
        /\ IF file.kind = "missing"
           THEN /\ Goto("open", "exited")
                /\ Raise("FileNotFoundError")
                /\ UNCHANGED opened
           ELSE /\ Goto("open", NextStep("open"))
                /\ f_open' = TRUE
                /\ opened' = Append(opened, b64_file_path[1])
                /\ UNCHANGED <<stdout, exit_code, raised>>
    /\ UNCHANGED <<b64_file_path, b64_string, img_bytes, model, img_array,
                   preds, predicted_index, predicted_label, confidence,
                   sys_argv, model_file, pil, net, earlier, pre>>

\* the read without the with block: nothing closes f
ReadFileLeftOpen ==
    /\ pc = "read"
    /\ LET file == fs[b64_file_path[1]]
       IN  IF file.kind = "binary"
           THEN /\ Goto("read", "exited")
                /\ raised' = Some("UnicodeDecodeError")
                /\ exit_code' = Some(1)
                /\ UNCHANGED <<b64_string, f_open, stdout>>
           ELSE /\ Goto("read", NextStep("read"))
                /\ b64_string' = Some(Strip(file.content))
                /\ UNCHANGED <<f_open, stdout, exit_code, raised>>
    /\ UNCHANGED <<b64_file_path, opened, img_bytes, model, img_array, preds,
                   predicted_index, predicted_label, confidence, sys_argv,
                   env, earlier, pre>>

\* line 29 and the end of the with block: f.read().strip(), then f is closed
ReadFile ==
    /\ pc = "read"
    /\ LET file == fs[b64_file_path[1]]
       IN  IF file.kind = "binary"
           THEN /\ Goto("read", "exited")
                /\ Raise("UnicodeDecodeError")
                /\ UNCHANGED b64_string
           ELSE /\ Goto("read", NextStep("read"))
                /\ b64_string' = Some(Strip(file.content))
                /\ f_open' = FALSE
                /\ UNCHANGED <<stdout, exit_code, raised>>
    /\ UNCHANGED <<b64_file_path, opened, img_bytes, model, img_array, preds,
                   predicted_index, predicted_label, confidence, sys_argv,
                   env, earlier, pre>>

\* line 31: base64.b64decode(b64_string)
B64Decode ==
    /\ pc = "b64decode"
    /\ LET r == b64decode(b64_string[1])
       IN  IF r.ok
           THEN /\ Goto("b64decode", NextStep("b64decode"))
                /\ img_bytes' = Some(r.bytes)
                /\ UNCHANGED <<f_open, stdout, exit_code, raised>>
           ELSE /\ Goto("b64decode", "exited")
                /\ Raise("binascii.Error")
                /\ UNCHANGED img_bytes
    /\ UNCHANGED <<b64_file_path, opened, b64_string, model, img_array, preds,
                   predicted_index, predicted_label, confidence, sys_argv,
                   env, earlier, pre>>

\* line 33: load_model(model_path)
LoadModel ==
    /\ pc = "load_model"
    /\ IF model_file = "ok"
       THEN /\ Goto("load_model", NextStep("load_model"))
            /\ model' = Some(model_path)
            /\ UNCHANGED <<f_open, stdout, exit_code, raised>>
       ELSE /\ Goto("load_model", "exited")
            /\ Raise("ValueError")
            /\ UNCHANGED model
    /\ UNCHANGED <<b64_file_path, opened, b64_string, img_bytes, img_array,
                   preds, predicted_index, predicted_label, confidence,
                   sys_argv, env, earlier, pre>>

\* line 35: load_and_preprocess_image_from_bytes(img_bytes), lines 15-19
Preprocess ==
    /\ pc = "preprocess"
    /\ \E r \in Answers(pil, img_bytes[1], OpenResults(img_bytes[1])) :
        /\ pil' = MemoSet(pil, img_bytes[1], r)
        /\ IF r.ok
           THEN /\ Goto("preprocess", NextStep("preprocess"))
                /\ img_array' = Some(load_and_preprocess_image(r.img[1]))
                /\ UNCHANGED <<f_open, stdout, exit_code, raised>>
           ELSE /\ Goto("preprocess", "exited")
                /\ Raise("UnidentifiedImageError")
                /\ UNCHANGED img_array
    /\ UNCHANGED <<b64_file_path, opened, b64_string, img_bytes, model, preds,
                   predicted_index, predicted_label, confidence, sys_argv,
                   fs, model_file, net, earlier, pre>>

\* line 37: model.predict(img_array, verbose=0)
Predict ==
    /\ pc = "predict"
    /\ \E r \in Answers(net, img_array[1], PredictResults) :
        /\ net' = MemoSet(net, img_array[1], r)
        /\ IF r.ok
           THEN /\ Goto("predict", NextStep("predict"))
                /\ preds' = Some(r.preds[1])
                /\ UNCHANGED <<f_open, stdout, exit_code, raised>>
           ELSE /\ Goto("predict", "exited")
                /\ Raise("InvalidArgumentError")
                /\ UNCHANGED preds
    /\ UNCHANGED <<b64_file_path, opened, b64_string, img_bytes, model,
                   img_array, predicted_index, predicted_label, confidence,
                   sys_argv, fs, model_file, pil, earlier, pre>>

\* lines 39-41
Classify ==
    /\ Goto("argmax", NextStep("argmax"))
    /\ LET index == ArgMax(preds[1])
       IN  IF index + 1 \in DOMAIN class_names
           THEN /\ predicted_index' = Some(index)
                /\ predicted_label' = Some(class_names[index + 1])
                /\ confidence' = Some(NpMax(preds[1]))
           ELSE UNCHANGED <<predicted_index, predicted_label, confidence>>
    /\ UNCHANGED <<b64_file_path, f_open, opened, b64_string, img_bytes, model,
                   img_array, preds, sys_argv, stdout, exit_code, raised, env,
                   earlier, pre>>

\* line 43, and the return from main: the process ends with status 0
PrintResult ==
    /\ Goto("print", "exited")
    /\ IF predicted_label # Unset
       THEN /\ stdout' =
                Append(stdout, ResultLine(predicted_label[1], confidence[1]))
            /\ exit_code' = Some(0)
            /\ UNCHANGED <<raised, f_open>>
       ELSE Raise("IndexError")
    /\ UNCHANGED <<b64_file_path, opened, b64_string, img_bytes, model,
                   img_array, preds, predicted_index, predicted_label,
                   confidence, sys_argv, env, earlier, pre>>

\* what an invocation that has ended leaves behind
Outcome ==
    [argv |-> sys_argv, stdout |-> stdout, exit_code |-> exit_code,
     raised |-> raised, opened |-> opened, steps |-> steps]

\* An invocation that was given two or more arguments has ended; the script
\* is run again, in the same environment, with the first of them only.
Reinvoke ==
    /\ pc = "exited"
    /\ earlier = Unset
    /\ Len(sys_argv) > 2
    /\ earlier' = Some(Outcome)
    /\ sys_argv' = <<"predict.py", sys_argv[2]>>
    /\ pc' = "argcheck"
    /\ b64_file_path' = Unset
    /\ f_open' = FALSE
    /\ opened' = <<>>
    /\ b64_string' = Unset
    /\ img_bytes' = Unset
    /\ model' = Unset
    /\ img_array' = Unset
    /\ preds' = Unset
    /\ predicted_index' = Unset
    /\ predicted_label' = Unset
    /\ confidence' = Unset
    /\ stdout' = <<>>
    /\ exit_code' = Unset
    /\ raised' = Unset
    /\ steps' = <<>>
    /\ UNCHANGED <<env, pre>>

Next ==
    \/ CheckArgs
    \/ OpenFile
    \/ ReadFile
    \/ B64Decode
    \/ LoadModel
    \/ Preprocess
    \/ Predict
    \/ Classify
    \/ PrintResult
    \/ Reinvoke

Spec == Init /\ [][Next]_vars

\* ------------------------------------------- the preprocessing on its own
\* load_and_preprocess_image_from_bytes, one statement at a time, on every
\* image Image.open can return.
InitPre ==
    /\ Start(<<>>)
    /\ fs = EmptyMemo
    /\ model_file = "ok"
    /\ pil = EmptyMemo
    /\ net = EmptyMemo
    /\ earlier = Unset
    /\ \E i \in Images :
        pre = [stage |-> "opened", src |-> <<i>>, img |-> <<i>>, arr |-> <<>>]

\* line 16: .convert('RGB')
PreConvert ==
    /\ pre.stage = "opened"
    /\ pre' = [pre EXCEPT !.stage = "converted",
                          !.img = Some(Convert(pre.img[1], "RGB"))]
    /\ UNCHANGED <<locals, process, env, earlier>>

\* line 17: img.resize(target_size)
PreResize ==
    /\ pre.stage = "converted"
    /\ pre' = [pre EXCEPT !.stage = "resized",
                          !.img = Some(Resize(pre.img[1], target_size))]
    /\ UNCHANGED <<locals, process, env, earlier>>

\* line 18: np.array(img) / 255.0
PreNormalize ==
    /\ pre.stage = "resized"
    /\ pre' = [pre EXCEPT !.stage = "normalized",
                          !.arr = Some(Divide(NpArray(pre.img[1]), PixelDivisor))]
    /\ UNCHANGED <<locals, process, env, earlier>>

\* line 19: np.expand_dims(img_array, axis=0)
PreExpand ==
    /\ pre.stage = "normalized"
    /\ pre' = [pre EXCEPT !.stage = "returned",
                          !.arr = Some(ExpandDims(pre.arr[1]))]
    /\ UNCHANGED <<locals, process, env, earlier>>

NextPre == PreConvert \/ PreResize \/ PreNormalize \/ PreExpand

SpecPre == InitPre /\ [][NextPre]_vars

\* ============================================================== properties
Digits == {DigitChar(d) : d \in 0..9}
DigitOf(c) == CHOOSE d \in 0..9 : DigitChar(d) = c

RECURSIVE NatOf(_)
NatOf(txt) ==
    IF txt = <<>> THEN 0
    ELSE 10 * NatOf(SubSeq(txt, 1, Len(txt) - 1)) + DigitOf(txt[Len(txt)])

HasBar(line) == \E i \in 1..Len(line) : line[i] = "|"
FirstBar(line) ==
    CHOOSE i \in 1..Len(line) :
        line[i] = "|" /\ \A j \in 1..(i - 1) : line[j] # "|"
\* the two fields of a printed line <label>|<confidence>
LabelField(line) == SubSeq(line, 1, FirstBar(line) - 1)
ConfidenceField(line) == SubSeq(line, FirstBar(line) + 1, Len(line))

\* txt is one or more digits, a point, and exactly `places` digits
FixedPoint(txt, places) ==
    /\ Len(txt) >= places + 2
    /\ txt[Len(txt) - places] = "."
    /\ \A i \in 1..Len(txt) : i # Len(txt) - places => txt[i] \in Digits

\* the number a fixed-point text denotes, times 10^places
ScaledValue(txt, places) ==
    NatOf(SubSeq(txt, 1, Len(txt) - places - 1)) * 10 ^ places
        + NatOf(SubSeq(txt, Len(txt) - places + 1, Len(txt)))

Abs(n) == IF n < 0 THEN 0 - n ELSE n

\* a line <label>|<confidence> with one of the class names as its label
SuccessLine(line) == HasBar(line) /\ \E i \in DOMAIN class_names :
                                        LabelField(line) = class_names[i]
PrintedSuccess == \E i \in DOMAIN stdout : SuccessLine(stdout[i])
PrintedSentinel == \E i \in DOMAIN stdout : stdout[i] = ErrorLine

NoArgument == Len(sys_argv) = 1

\* C1: an invocation with no argument prints exactly the line Error|0.0 and
\* ends with status 1, and it never opens a file, decodes anything or loads
\* the model: the argument check is the only step it enters.
C1_NoArgument ==
    NoArgument =>
        /\ pc \in {"argcheck", "exited"}
        /\ opened = <<>> /\ ~f_open /\ fs = EmptyMemo
        /\ b64_string = Unset /\ img_bytes = Unset /\ img_array = Unset
        /\ model = Unset /\ pil = EmptyMemo /\ net = EmptyMemo
        /\ pc = "exited" =>
              /\ stdout = <<ErrorLine>>
              /\ exit_code = Some(1)
              /\ steps = <<"argcheck">>

C1_Witness == NoArgument /\ pc = "exited" /\ stdout = <<ErrorLine>>

\* the batch the classifier returned, as a row of scores
Row == preds[1][1]
Returned == pc = "exited" /\ preds # Unset

\* C2: a run in which every step succeeded prints exactly one line
\* <label>|<confidence> and ends with status 0; the label is the class name at
\* an index holding the largest score, the confidence is that score to 4
\* decimals (within half a unit of the last place), and it is the entry of the
\* row at the index of the printed label.  [0.9, 0.1] gives Marigold|0.9000
\* and [0.2, 0.8] gives Scarlet Sage|0.8000.
C2_SuccessOutput ==
    Returned =>
        /\ Len(stdout) = 1
        /\ exit_code = Some(0)
        /\ raised = Unset
        /\ HasBar(stdout[1])
        /\ \E i \in DOMAIN Row :
            /\ \A j \in DOMAIN Row : Row[j] <= Row[i]
            /\ LabelField(stdout[1]) = class_names[i]
            /\ predicted_index = Some(i - 1)
            /\ confidence = Some(Row[i])
            /\ FixedPoint(ConfidenceField(stdout[1]), 4)
            /\ 2 * Abs(ScaledValue(ConfidenceField(stdout[1]), 4) * FloatScale
                         - Row[i] * 10 ^ 4) <= FloatScale
        /\ Row = <<Nearest(9, 10), Nearest(1, 10)>> =>
              stdout[1] = class_names[1] \o <<"|", "0", ".", "9", "0", "0", "0">>
        /\ Row = <<Nearest(2, 10), Nearest(8, 10)>> =>
              stdout[1] = class_names[2] \o <<"|", "0", ".", "8", "0", "0", "0">>

C2_Witness ==
    /\ Returned
    /\ Row = <<Nearest(2, 10), Nearest(8, 10)>>
    /\ stdout = <<class_names[2] \o <<"|", "0", ".", "8", "0", "0", "0">>>>

\* C3: the predicted index is the lowest index holding the largest score, so
\* when both scores are equal the printed label is Marigold.
C3_TieLowestIndex ==
    (preds # Unset /\ predicted_index # Unset) =>
        /\ \A j \in DOMAIN Row : Row[j] <= Row[predicted_index[1] + 1]
        /\ \A j \in 1..predicted_index[1] : Row[j] < Row[predicted_index[1] + 1]
        /\ (Row[1] = Row[2] /\ pc = "exited") =>
              /\ Len(stdout) = 1
              /\ LabelField(stdout[1]) = class_names[1]

C3_Witness ==
    /\ Returned
    /\ Row[1] = Row[2]
    /\ Len(stdout) = 1
    /\ LabelField(stdout[1]) = class_names[1]

\* ---- base64, stated without the decoder
AlphabetChar(c) == B64Index(c) < 64
\* canonical base64 (RFC 4648): whole quads of alphabet characters, the last
\* one possibly ending in one or two pads
Canonical(s) ==
    /\ Len(s) % 4 = 0
    /\ \A i \in 1..Len(s) :
        \/ AlphabetChar(s[i])
        \/ /\ s[i] = "="
           /\ i >= Len(s) - 1
           /\ i = Len(s) - 1 => s[Len(s)] = "="
\* well-formed on the most lenient reading: canonical once whitespace (line
\* breaks, RFC 2045) is taken out
WellFormed(s) == Canonical(SelectSeq(s, LAMBDA c : c \notin Whitespace))

\* the characters a lenient decoder looks at
Significant(s) == SelectSeq(s, LAMBDA c : c = "=" \/ AlphabetChar(c))
DataUpTo(t, k) == Cardinality({i \in 1..k : t[i] # "="})
\* the pad at k closes a quad: it follows 3 data characters of the quad, or 2
\* and a pad
Closes(t, k) ==
    /\ t[k] = "="
    /\ \/ DataUpTo(t, k) % 4 = 3
       \/ DataUpTo(t, k) % 4 = 2 /\ k > 1 /\ t[k - 1] = "="
\* the data characters form whole quads, or some pad closes a quad
Accepted(s) ==
    LET t == Significant(s)
    IN  \/ DataUpTo(t, Len(t)) % 4 = 0
        \/ \E k \in 1..Len(t) : Closes(t, k)

RaisedBy(exc) ==
    CASE exc = "FileNotFoundError" -> "open"
      [] exc = "UnicodeDecodeError" -> "read"
      [] exc = "binascii.Error" -> "b64decode"
      [] exc = "ValueError" -> "load_model"
      [] exc = "UnidentifiedImageError" -> "preprocess"
      [] exc = "InvalidArgumentError" -> "predict"
      [] OTHER -> "none"

Entered(step) == \E i \in DOMAIN steps : steps[i] = step
\* the local each step binds when it completes
Bound(step) ==
    CASE step = "argcheck" -> b64_file_path # Unset
      [] step = "open" -> opened # <<>>
      [] step = "read" -> b64_string # Unset
      [] step = "b64decode" -> img_bytes # Unset
      [] step = "load_model" -> model # Unset
      [] step = "preprocess" -> img_array # Unset
      [] step = "predict" -> preds # Unset
      [] step = "argmax" -> predicted_label # Unset
      [] OTHER -> stdout # <<>>
StepNames ==
    {"argcheck", "open", "read", "b64decode", "load_model", "preprocess",
     "predict", "argmax", "print"}

\* C5: the sentinel line Error|0.0 is printed if and only if no argument was
\* given; a failure of any other step (open, read, base64 decode, model load,
\* image decode, inference) is not caught: the run ends there with status 1,
\* nothing on standard output, and no later step entered or completed.  A run
\* that was given an argument either ends so or prints its result.
C5_OnlyErrorPath ==
    /\ PrintedSentinel <=> (NoArgument /\ pc = "exited")
    /\ raised # Unset =>
          /\ pc = "exited"
          /\ exit_code = Some(1)
          /\ stdout = <<>>
          /\ steps # <<>> /\ steps[Len(steps)] = RaisedBy(raised[1])
          /\ ~Bound(RaisedBy(raised[1]))
          /\ \A s \in StepNames : ~Entered(s) => ~Bound(s)
    /\ (pc = "exited" /\ ~NoArgument) =>
          \/ raised # Unset
          \/ exit_code = Some(0) /\ PrintedSuccess
    /\ (pc = "exited" /\ Entered("open") /\ fs[sys_argv[2]].kind # "text") =>
          raised # Unset
    /\ (pc = "exited" /\ Entered("load_model") /\ model_file # "ok") =>
          raised = Some("ValueError")
    /\ (pc = "exited" /\ Entered("preprocess") /\ ~pil[img_bytes[1]].ok) =>
          raised = Some("UnidentifiedImageError")
    /\ (pc = "exited" /\ Entered("predict") /\ ~net[img_array[1]].ok) =>
          raised = Some("InvalidArgumentError")

C5_Witness ==
    /\ pc = "exited"
    /\ raised = Some("UnidentifiedImageError")
    /\ stdout = <<>>
    /\ exit_code = Some(1)

\* ---- the order of the steps
IsPrefix(s, t) == Len(s) <= Len(t) /\ s = SubSeq(t, 1, Len(s))

\* C6 as stated: the steps run in the order argument check, file read, base64
\* decode, image preprocessing, model load, forward pass, print; the model is
\* loaded only once the image is decoded and normalized, and a corrupt image
\* fails the run before the model is loaded.
C6_Original ==
    /\ IsPrefix(steps, <<"argcheck", "open", "read", "b64decode", "preprocess",
                         "load_model", "predict", "argmax", "print">>)
    /\ model # Unset => img_array # Unset
    /\ raised = Some("UnidentifiedImageError") => model = Unset

\* C6 as amended: the steps run in the order argument check, file read, base64
\* decode, model load, image preprocessing, forward pass, print; the image is
\* decoded and normalized only once the model is loaded, so a run whose image
\* bytes are corrupt fails after the model has been loaded.
C6_StepOrder ==
    /\ IsPrefix(steps, <<"argcheck", "open", "read", "b64decode", "load_model",
                         "preprocess", "predict", "argmax", "print">>)
    /\ img_array # Unset => model # Unset
    /\ raised = Some("UnidentifiedImageError") => model # Unset

C6_Witness ==
    /\ pc = "exited"
    /\ raised = Some("UnidentifiedImageError")
    /\ model # Unset
    /\ img_array = Unset

\* C7: in every printed line <label>|<confidence> the confidence is digits, a
\* point and exactly 4 digits, and the number it denotes lies in [0, 1].
C7_ConfidenceFormat ==
    \A i \in DOMAIN stdout :
        SuccessLine(stdout[i]) =>
            /\ FixedPoint(ConfidenceField(stdout[i]), 4)
            /\ ScaledValue(ConfidenceField(stdout[i]), 4) \in 0..(10 ^ 4)

C7_Witness ==
    /\ pc = "exited"
    /\ Len(stdout) = 1
    /\ SuccessLine(stdout[1])
    /\ ConfidenceField(stdout[1]) = <<"0", ".", "9", "6", "8", "8">>

\* ---- the file handle
AfterRead == {"b64decode", "load_model", "preprocess", "predict", "argmax", "print"}

\* C8 as stated: one handle is opened per run and it stays open until the
\* process ends: it is open during base64 decode, model load, inference and
\* printing.
C8_Original == pc \in AfterRead => (Len(opened) = 1 /\ f_open)

\* C8 as amended: the script opens at most one handle per run, for the input
\* path, and exactly one in a run that gets past the read; the with block
\* closes it as soon as the content is read or the read fails: the handle is
\* open only while the read is pending, and it is closed during base64 decode,
\* model load, preprocessing, inference and printing, and at exit.
C8_HandleScope ==
    /\ Len(opened) <= 1
    /\ opened # <<>> => opened = <<sys_argv[2]>>
    /\ f_open <=> pc = "read"
    /\ pc \in AfterRead => (Len(opened) = 1 /\ ~f_open)
    /\ pc = "exited" => ~f_open

C8_Witness == pc = "b64decode" /\ Len(opened) = 1 /\ ~f_open

\* C9: for every image Image.open can return, whatever its width, height and
\* mode, the preprocessing returns a tensor of shape (1, 150, 150, 3) whose
\* elements are integers of 0..255 over 255, so each lies in [0, 1].
C9_TensorShapeRange ==
    pre.stage = "returned" =>
        LET a == pre.arr[1]
        IN  /\ a.shape = <<1, 150, 150, 3>>
            /\ a.den = 255
            /\ 0 <= a.lo /\ a.lo <= a.hi /\ a.hi <= 255
            /\ a = load_and_preprocess_image(pre.src[1])

C9_Witness ==
    /\ pre.stage = "returned"
    /\ pre.src[1].mode = "I"
    /\ pre.src[1].hi > 255
    /\ pre.src[1].size = <<200, 1>>
    /\ pre.arr[1].shape = <<1, 150, 150, 3>>

\* C10: an invocation with two or more arguments is not an error: it never
\* prints the sentinel and reads no path but its first argument, and it ends
\* exactly as the invocation with that first argument alone does in the same
\* environment: same file opened, same steps, same output, same status.
C10_ExtraArgumentsIgnored ==
    /\ Len(sys_argv) > 2 =>
          /\ ~PrintedSentinel
          /\ b64_file_path \in {Unset, Some(sys_argv[2])}
          /\ \A i \in DOMAIN opened : opened[i] = sys_argv[2]
          /\ DOMAIN fs \subseteq {sys_argv[2]}
    /\ (earlier # Unset /\ pc = "exited") =>
          /\ Len(earlier[1].argv) > 2
          /\ sys_argv = SubSeq(earlier[1].argv, 1, 2)
          /\ stdout = earlier[1].stdout
          /\ exit_code = earlier[1].exit_code
          /\ raised = earlier[1].raised
          /\ opened = earlier[1].opened
          /\ steps = earlier[1].steps

C10_Witness ==
    /\ earlier # Unset
    /\ pc = "exited"
    /\ earlier[1].argv[3] # earlier[1].argv[2]
    /\ PrintedSuccess
    /\ stdout = earlier[1].stdout

=============================================================================
